---- MODULE Spec2Model ----
(***************************************************************************)
(* A model of rdx-core: the preference aggregation (preferences.rs,        *)
(* math.rs), the Walras oracle (pareto_oracle.rs), the candidate search    *)
(* and trade application (trade.rs) and the simulation loop (sim.rs).      *)
(*                                                                         *)
(* Numbers.  The program computes in f64.  The model keeps two kinds of    *)
(* number, each with the operations of the source written against it:      *)
(*   - preference parameters (alpha, beta) are exact rationals <<n, d>>,   *)
(*     d > 0, in lowest terms;                                             *)
(*   - quantities, prices and utilities are decimal floating-point         *)
(*     numbers <<m, e>> = m * 10^e with a four digit mantissa              *)
(*     (1000 <= |m| <= 9999, or m = 0), every operation rounding its       *)
(*     result to four digits as f64 rounds to 53 bits.                     *)
(***************************************************************************)
EXTENDS Integers, Sequences, FiniteSets, TLC

Abs(n) == IF n < 0 THEN -n ELSE n

Sgn(n) == IF n < 0 THEN -1 ELSE IF n > 0 THEN 1 ELSE 0

RECURSIVE Pow10(_)
Pow10(k) == IF k <= 0 THEN 1 ELSE 10 * Pow10(k - 1)

RECURSIVE Gcd(_, _)
Gcd(a, b) == IF b = 0 THEN a ELSE Gcd(b, a % b)

(***************************************************************************)
(* Exact rationals.  <<0, 0>> is the f64 that is not a number: every       *)
(* operation on it gives it back and every comparison with it is false.    *)
(***************************************************************************)
QNaN == <<0, 0>>

IsNaN(x) == x[2] = 0

QNorm(n, d) ==
    LET g == Gcd(Abs(n), d)
    IN  IF n = 0 THEN <<0, 1>> ELSE <<n \div g, d \div g>>

\* x + y for numbers
QSum2(x, y, g) ==
    QNorm(x[1] * (y[2] \div g) + y[1] * (x[2] \div g), (x[2] \div g) * y[2])

QAdd(x, y) ==
    IF IsNaN(x) \/ IsNaN(y) THEN QNaN ELSE QSum2(x, y, Gcd(x[2], y[2]))

QNeg(x) == <<-x[1], x[2]>>

QSub(x, y) == QAdd(x, QNeg(y))

QMul(x, y) ==
    LET g1 == Gcd(Abs(x[1]), y[2])
        g2 == Gcd(Abs(y[1]), x[2])
    IN  IF IsNaN(x) \/ IsNaN(y) THEN QNaN
        ELSE IF x[1] = 0 \/ y[1] = 0 THEN <<0, 1>>
        ELSE <<(x[1] \div g1) * (y[1] \div g2), (x[2] \div g2) * (y[2] \div g1)>>

\* x / y for y # 0
QDiv(x, y) == QMul(x, <<Sgn(y[1]) * y[2], Abs(y[1])>>)

RECURSIVE QLtPos(_, _, _, _)
\* n1 / d1 < n2 / d2 for non-negative fractions, by their integer parts and
\* then the reciprocals of what is left: no product is formed
QLtPos(n1, d1, n2, d2) ==
    IF n1 \div d1 # n2 \div d2 THEN n1 \div d1 < n2 \div d2
    ELSE IF n2 % d2 = 0 THEN FALSE
    ELSE IF n1 % d1 = 0 THEN TRUE
    ELSE QLtPos(d2, n2 % d2, d1, n1 % d1)

QLt(x, y) ==
    IF IsNaN(x) \/ IsNaN(y) THEN FALSE
    ELSE IF x[1] < 0 /\ y[1] >= 0 THEN TRUE
    ELSE IF x[1] >= 0 /\ y[1] < 0 THEN FALSE
    ELSE IF x[1] >= 0 THEN QLtPos(x[1], x[2], y[1], y[2])
    ELSE QLtPos(-y[1], y[2], -x[1], x[2])

\* f64::max: the other argument when one is not a number
QMax(x, y) == IF IsNaN(x) THEN y ELSE IF QLt(x, y) THEN y ELSE x

QAbs(x) == <<Abs(x[1]), x[2]>>

\* f64::clamp(lo, hi): what is not a number stays so
QClamp(x, lo, hi) == IF QLt(x, lo) THEN lo ELSE IF QLt(hi, x) THEN hi ELSE x

(***************************************************************************)
(* Four digit decimal floating point.                                      *)
(***************************************************************************)
RECURSIVE FNorm(_, _)
FNorm(n, e) ==
    IF n = 0 THEN <<0, 0>>
    ELSE IF Abs(n) >= 100000 THEN FNorm(Sgn(n) * (Abs(n) \div 10), e + 1)
    ELSE IF Abs(n) >= 10000 THEN FNorm(Sgn(n) * ((Abs(n) + 5) \div 10), e + 1)
    ELSE IF Abs(n) < 1000 THEN FNorm(n * 10, e - 1)
    ELSE <<n, e>>

FInt(n) == FNorm(n, 0)

FNeg(x) == <<-x[1], x[2]>>

FAdd(x, y) ==
    IF x[1] = 0 THEN y
    ELSE IF y[1] = 0 THEN x
    ELSE LET hi == IF x[2] >= y[2] THEN x ELSE y
             lo == IF x[2] >= y[2] THEN y ELSE x
             d  == hi[2] - lo[2]
         IN  IF d > 5 THEN hi ELSE FNorm(hi[1] * Pow10(d) + lo[1], lo[2])

FSub(x, y) == FAdd(x, FNeg(y))

FMul(x, y) == FNorm(x[1] * y[1], x[2] + y[2])

\* x / y for y # 0
FDiv(x, y) ==
    FNorm(Sgn(x[1]) * Sgn(y[1]) * ((Abs(x[1]) * 100000) \div Abs(y[1])),
          x[2] - y[2] - 5)

FLt(x, y) == FSub(x, y)[1] < 0

FGt(x, y) == FLt(y, x)

\* f64::max
FMax(x, y) == IF FLt(x, y) THEN y ELSE x

RECURSIVE ISqrtIter(_, _)
ISqrtIter(n, x) ==
    LET y == (x + n \div x) \div 2
    IN  IF y >= x THEN x ELSE ISqrtIter(n, y)

ISqrt(n) == IF n = 0 THEN 0 ELSE ISqrtIter(n, n)

\* f64::sqrt, x >= 0
FSqrt(x) ==
    IF x[1] = 0 THEN <<0, 0>>
    ELSE IF x[2] % 2 = 0
         THEN FNorm(ISqrt(x[1] * 10000), (x[2] - 4) \div 2)
         ELSE FNorm(ISqrt(x[1] * 100000), (x[2] - 5) \div 2)

\* The value of x in units of 10^-4, truncated.
FFix(x) ==
    IF x[2] + 4 >= 0 THEN x[1] * Pow10(x[2] + 4)
    ELSE Sgn(x[1]) * (Abs(x[1]) \div Pow10(-(x[2] + 4)))

RECURSIVE LnHalve(_, _)
\* <<y, k>> with y * 2^k the argument and 10000 <= y < 20000
LnHalve(y, k) == IF y >= 20000 THEN LnHalve(y \div 2, k + 1) ELSE <<y, k>>

\* 2 atanh(t) = 2 t (1 + t^2/3 + t^4/5 + t^6/7) in units of 10^-4, t2 = t^2
ln_series(t, t2) ==
    2 * ((t * (10000 + (t2 * (3333 + (t2 * (2000 + (t2 * 1429) \div 10000))
                                     \div 10000)) \div 10000)) \div 10000)

ln_frac(t) == ln_series(t, (t * t) \div 10000)

\* ln(y * 2^k * 10^e) for yk = <<y, k>>, 1 <= y < 2 in units of 10^-4
ln_parts(yk, e) ==
    FNorm(ln_frac(((yk[1] - 10000) * 10000) \div (yk[1] + 10000))
          + yk[2] * 6931 + e * 23026, -4)

\* f64::ln, x > 0: ln(mantissa) by the atanh series in units of 10^-4,
\* plus the exponent's multiple of ln 10.
FLn(x) == ln_parts(LnHalve(x[1] * 10, 0), x[2] + 3)

\* e^u = 1 + u (1 + u/2 (1 + u/3 (1 + u/4 (1 + u/5)))) in units of 10^-4
exp_series(u) ==
    10000 + (u * (10000 + (u * (10000 + (u * (10000 + (u * (10000 + u \div 5))
                  \div 40000)) \div 30000)) \div 20000)) \div 10000

sq_fix(v) == (v * v) \div 10000

\* 10^k * e^(r) for r = si - k ln 10 in units of 10^-4, as (e^(r/4))^4
exp_parts(si, k) ==
    FNorm(sq_fix(sq_fix(exp_series((si - k * 23026) \div 4))), k - 4)

exp_fix(si) == exp_parts(si, (si + 11513) \div 23026)

\* f64::exp: e^s = 10^k * e^r with s = k ln 10 + r, by the Taylor series in
\* units of 10^-4.
FExp(x) == exp_fix(FFix(x))

\* The float nearest a rational.
QToF(q) == FDiv(FInt(q[1]), FInt(q[2]))

(***************************************************************************)
(* Vectors are functions on 0 .. n-1, indexed as the source's Vec.         *)
(***************************************************************************)
VLen(v) == Cardinality(DOMAIN v)

RECURSIVE QVSumTo(_, _)
QVSumTo(v, n) == IF n = 0 THEN <<0, 1>> ELSE QAdd(QVSumTo(v, n - 1), v[n - 1])

(***************************************************************************)
(* math.rs                                                                 *)
(***************************************************************************)
\* v left as it is
normalize_skipped(v) == v

\* normalize: v / sum(v) when the sum is positive, v otherwise
normalize(v) ==
    LET s == QVSumTo(v, VLen(v))
    IN  IF s[1] > 0 THEN [k \in DOMAIN v |-> QDiv(v[k], s)] ELSE v

clamp01(x) == IF x[1] < 0 THEN <<0, 1>> ELSE IF QLt(<<1, 1>>, x) THEN <<1, 1>> ELSE x

(***************************************************************************)
(* preferences.rs                                                          *)
(***************************************************************************)
\* 1e-6, the min_alpha every caller passes
MinAlpha == <<1, 1000000>>

OneMinus(a) == QSub(<<1, 1>>, a)

\* requires base < n (the source asserts it)
beta_from_alpha_to_base(alpha_to_base, base, min_alpha) ==
    LET beta_b == <<1, 1>>
        ratio(k) ==
            LET a == QClamp(alpha_to_base[k], min_alpha, OneMinus(min_alpha))
            IN  QDiv(a, OneMinus(a))
    IN  normalize([k \in DOMAIN alpha_to_base |->
                      IF k = base THEN beta_b ELSE QMul(ratio(k), beta_b)])

\* beta[a] / max(beta[a] + beta[b], 1e-18), clamped.  Every positive rational
\* of the model exceeds 1e-18, so the floor acts exactly when the sum is 0,
\* and then the quotient is 0 / 1e-18 = 0.
alpha_from_beta(beta, a, b, min_alpha) ==
    LET ba == QMax(beta[a], <<0, 1>>)
        bb == QMax(beta[b], <<0, 1>>)
        denom == QAdd(ba, bb)
    IN  QClamp(IF denom[1] = 0 THEN <<0, 1>> ELSE QDiv(ba, denom),
               min_alpha, OneMinus(min_alpha))

RECURSIVE cd_log_sum(_, _, _, _)
\* the loop of cd_utility over the first n zipped entries
cd_log_sum(beta, x, min_qty, n) ==
    IF n = 0 THEN <<0, 0>>
    ELSE FAdd(cd_log_sum(beta, x, min_qty, n - 1),
              FMul(QToF(beta[n - 1]), FLn(FMax(x[n - 1], min_qty))))

Min(a, b) == IF a < b THEN a ELSE b

cd_utility(beta, x, min_qty) ==
    FExp(cd_log_sum(beta, x, min_qty, Min(VLen(beta), VLen(x))))

(***************************************************************************)
(* pareto_oracle.rs                                                        *)
(***************************************************************************)
F0 == <<0, 0>>

F1 == <<1000, -3>>

excess_demand_a(alpha_i, ai, bi, alpha_j, aj, bj, p) ==
    LET wi == FAdd(FMul(p, ai), bi)
        wj == FAdd(FMul(p, aj), bj)
        di_a == FDiv(FMul(alpha_i, wi), p)
        dj_a == FDiv(FMul(alpha_j, wj), p)
    IN  FSub(FAdd(di_a, dj_a), FAdd(ai, aj))

RECURSIVE bisect(_, _, _, _, _, _, _, _, _)
\* the bisection loop: <<p_lo, p_hi>> after iters more steps
bisect(a_i, ai, bi, a_j, aj, bj, p_lo, p_hi, iters) ==
    IF iters = 0 THEN <<p_lo, p_hi>>
    ELSE LET p_mid == FSqrt(FMul(p_lo, p_hi))
             z == excess_demand_a(a_i, ai, bi, a_j, aj, bj, p_mid)
         IN  IF FGt(z, F0)
             THEN bisect(a_i, ai, bi, a_j, aj, bj, p_mid, p_hi, iters - 1)
             ELSE bisect(a_i, ai, bi, a_j, aj, bj, p_lo, p_mid, iters - 1)

\* the bracket [1e-6, 1e6]
P_LO == <<1000, -9>>

P_HI == <<1000, 3>>

\* the allocations at the price p, pB = 1
allocate(a_i, ai, bi, a_j, aj, bj, p, min_qty) ==
    LET wi == FAdd(FMul(p, ai), bi)
        wj == FAdd(FMul(p, aj), bj)
    IN  [q_ab    |-> p,
         ai_post |-> FMax(FDiv(FMul(a_i, wi), p), min_qty),
         bi_post |-> FMax(FMul(FSub(F1, a_i), wi), min_qty),
         aj_post |-> FMax(FDiv(FMul(a_j, wj), p), min_qty),
         bj_post |-> FMax(FMul(FSub(F1, a_j), wj), min_qty)]

\* the price of the final bracket
final_price(br) == FSqrt(FMul(br[1], br[2]))

\* the solve once the guard rails are applied
solve_guarded(a_i, ai, bi, a_j, aj, bj, min_qty, iters) ==
    allocate(a_i, ai, bi, a_j, aj, bj,
             final_price(bisect(a_i, ai, bi, a_j, aj, bj, P_LO, P_HI, iters)),
             min_qty)

solve_two_good_exchange(alpha_i, ai, bi, alpha_j, aj, bj, min_qty, iters) ==
    solve_guarded(QToF(clamp01(alpha_i)), FMax(ai, min_qty), FMax(bi, min_qty),
                  QToF(clamp01(alpha_j)), FMax(aj, min_qty), FMax(bj, min_qty),
                  min_qty, iters)

(***************************************************************************)
(* trade.rs.  An Option is a sequence: <<>> is None, <<c>> is Some(c).     *)
(* An agent is [e, beta, alpha_to_base]; reaction_rules is never read.     *)
(***************************************************************************)
\* 1e-18
TINY == <<1000, -21>>

FAbs(x) == <<Abs(x[1]), x[2]>>

mrs_to_base(beta, x, k, base, min_qty) ==
    LET bk == FMax(QToF(beta[k]), F0)
        bb == FMax(QToF(beta[base]), TINY)
        xb == FMax(x[base], min_qty)
        xk == FMax(x[k], min_qty)
    IN  FMul(FDiv(bk, bb), FDiv(xb, xk))

RECURSIVE insert_desc(_, _)
\* x put behind every entry whose score is not below its own: the stable
\* descending order of sort_by
insert_desc(sorted, x) ==
    IF sorted = <<>> THEN <<x>>
    ELSE IF FLt(sorted[1][2], x[2]) THEN <<x>> \o sorted
    ELSE <<sorted[1]>> \o insert_desc(Tail(sorted), x)

RECURSIVE sort_desc(_, _)
sort_desc(scored, n) ==
    IF n = 0 THEN <<>> ELSE insert_desc(sort_desc(scored, n - 1), scored[n])

RECURSIVE scored_goods(_, _, _, _, _)
\* the loop for g in 0..n of candidate_goods_pruned: the pairs <<g, score>>
\* pushed for the goods below g
scored_goods(i, j, base, min_qty, g) ==
    IF g = 0 THEN <<>>
    ELSE LET h  == g - 1
             mi == FLn(FMax(mrs_to_base(i.beta, i.e, h, base, min_qty), TINY))
             mj == FLn(FMax(mrs_to_base(j.beta, j.e, h, base, min_qty), TINY))
             rest == scored_goods(i, j, base, min_qty, h)
         IN  IF h = base THEN rest
             ELSE Append(rest, <<h, FAbs(FSub(mi, mj))>>)

sort_all(scored) == sort_desc(scored, Len(scored))

\* scored.truncate(k.min(scored.len()))
\* one entry more than asked for, when there is one
truncate_late(scored, k) == SubSeq(scored, 1, Min(k + 1, Len(scored)))

truncate(scored, k) == SubSeq(scored, 1, Min(k, Len(scored)))

goods_of(scored) == [x \in 1 .. Len(scored) |-> scored[x][1]]

candidate_goods_pruned(i, j, base, k, min_qty) ==
    goods_of(truncate(sort_all(scored_goods(i, j, base, min_qty, VLen(i.e))), k))

\* the dyadic alpha of an agent for the ordered pair (good_a, good_b)
dyad_alpha(ag, good_a, good_b, base_good) ==
    IF good_b = base_good /\ VLen(ag.alpha_to_base) = VLen(ag.e)
    THEN QClamp(ag.alpha_to_base[good_a], MinAlpha, OneMinus(MinAlpha))
    ELSE alpha_from_beta(ag.beta, good_a, good_b, MinAlpha)

\* the candidate whenever i gains, whatever becomes of j
accept_i_only(good_a, good_b, ex, ai, bi, delta_u_i, delta_u_j) ==
    IF FGt(delta_u_i, F0)
    THEN << [good_a    |-> good_a,
             good_b    |-> good_b,
             q_ab      |-> ex.q_ab,
             delta_a_i |-> FSub(ex.ai_post, ai),
             delta_b_i |-> FSub(ex.bi_post, bi),
             delta_u_i |-> delta_u_i,
             delta_u_j |-> delta_u_j] >>
    ELSE <<>>

\* the candidate, when both deltas are strictly positive
accept(good_a, good_b, ex, ai, bi, delta_u_i, delta_u_j) ==
    IF FGt(delta_u_i, F0) /\ FGt(delta_u_j, F0)
    THEN << [good_a    |-> good_a,
             good_b    |-> good_b,
             q_ab      |-> ex.q_ab,
             delta_a_i |-> FSub(ex.ai_post, ai),
             delta_b_i |-> FSub(ex.bi_post, bi),
             delta_u_i |-> delta_u_i,
             delta_u_j |-> delta_u_j] >>
    ELSE <<>>

\* the full-vector utility change of an agent whose goods A and B become
\* a_post and b_post
delta_u(ag, good_a, good_b, a_post, b_post, min_qty) ==
    FSub(cd_utility(ag.beta, [ag.e EXCEPT ![good_a] = a_post, ![good_b] = b_post],
                    min_qty),
         cd_utility(ag.beta, ag.e, min_qty))

\* evaluate_pairwise_trade from the oracle's answer ex on
evaluate_exchange(i, j, good_a, good_b, min_qty, ex) ==
    accept(good_a, good_b, ex, i.e[good_a], i.e[good_b],
           delta_u(i, good_a, good_b, ex.ai_post, ex.bi_post, min_qty),
           delta_u(j, good_a, good_b, ex.aj_post, ex.bj_post, min_qty))

evaluate_pairwise_trade(i, j, good_a, good_b, base_good, min_qty, oracle_iters) ==
    IF good_a = good_b THEN <<>>
    ELSE IF good_a >= VLen(i.e) \/ good_b >= VLen(i.e) THEN <<>>
    ELSE IF VLen(i.e) # VLen(j.e) THEN <<>>
    ELSE evaluate_exchange(i, j, good_a, good_b, min_qty,
             solve_two_good_exchange(
                 dyad_alpha(i, good_a, good_b, base_good),
                 i.e[good_a], i.e[good_b],
                 dyad_alpha(j, good_a, good_b, base_good),
                 j.e[good_a], j.e[good_b], min_qty, oracle_iters))

\* f64::min
FMin(x, y) == IF FLt(y, x) THEN y ELSE x

score(cand) == FMin(cand.delta_u_i, cand.delta_u_j)

\* a match that never replaces the best so far
keep_first(best, cand) == IF best = <<>> THEN cand ELSE best

\* the match on best of both searches: a candidate replaces the best so far
\* only with a strictly greater score
keep_best(best, cand) ==
    IF cand = <<>> THEN best
    ELSE IF best = <<>> THEN cand
    ELSE IF FGt(score(cand[1]), score(best[1])) THEN cand
    ELSE best

RECURSIVE against_base_loop(_, _, _, _, _, _)
\* best after the goods below a
against_base_loop(i, j, base_good, min_qty, oracle_iters, a) ==
    IF a = 0 THEN <<>>
    ELSE LET best == against_base_loop(i, j, base_good, min_qty, oracle_iters, a - 1)
         IN  IF a - 1 = base_good THEN best
             ELSE keep_best(best,
                      evaluate_pairwise_trade(i, j, a - 1, base_good, base_good,
                                              min_qty, oracle_iters))

best_trade_against_base(i, j, base_good, min_qty, oracle_iters) ==
    IF VLen(i.e) # VLen(j.e) THEN <<>>
    ELSE against_base_loop(i, j, base_good, min_qty, oracle_iters, VLen(i.e))

RECURSIVE all_pairs_loop(_, _, _, _, _, _, _)
\* best after the first m ordered pairs (a, b) of cand_goods, a outer
all_pairs_loop(i, j, base_good, min_qty, oracle_iters, cand_goods, m) ==
    IF m = 0 THEN <<>>
    ELSE LET len  == Len(cand_goods)
             a    == cand_goods[((m - 1) \div len) + 1]
             b    == cand_goods[((m - 1) % len) + 1]
             best == all_pairs_loop(i, j, base_good, min_qty, oracle_iters,
                                    cand_goods, m - 1)
         IN  IF a = b THEN best
             ELSE keep_best(best,
                      evaluate_pairwise_trade(i, j, a, b, base_good,
                                              min_qty, oracle_iters))

all_pairs(i, j, base_good, min_qty, oracle_iters, cand_goods) ==
    all_pairs_loop(i, j, base_good, min_qty, oracle_iters, cand_goods,
                   Len(cand_goods) * Len(cand_goods))

best_trade_over_all_pairs_pruned(i, j, base_good, candidate_goods_k, min_qty, oracle_iters) ==
    IF VLen(i.e) # VLen(j.e) THEN <<>>
    ELSE all_pairs(i, j, base_good, min_qty, oracle_iters,
             Append(candidate_goods_pruned(i, j, base_good, candidate_goods_k,
                                           min_qty), base_good))

\* <<i, j>> after the trade
\* a booking that puts the deltas of good b on the good after it
apply_trade_shifted(i, j, cand, min_qty) ==
    LET a == cand.good_a
        b == (cand.good_b + 1) % VLen(i.e)
        ie1 == [i.e EXCEPT ![a] = FMax(FAdd(i.e[a], cand.delta_a_i), min_qty)]
        ie2 == [ie1 EXCEPT ![b] = FMax(FAdd(ie1[b], cand.delta_b_i), min_qty)]
        je1 == [j.e EXCEPT ![a] = FMax(FSub(j.e[a], cand.delta_a_i), min_qty)]
        je2 == [je1 EXCEPT ![b] = FMax(FSub(je1[b], cand.delta_b_i), min_qty)]
    IN  <<[i EXCEPT !.e = ie2], [j EXCEPT !.e = je2]>>

apply_trade(i, j, cand, min_qty) ==
    LET a == cand.good_a
        b == cand.good_b
        ie1 == [i.e EXCEPT ![a] = FMax(FAdd(i.e[a], cand.delta_a_i), min_qty)]
        ie2 == [ie1 EXCEPT ![b] = FMax(FAdd(ie1[b], cand.delta_b_i), min_qty)]
        je1 == [j.e EXCEPT ![a] = FMax(FSub(j.e[a], cand.delta_a_i), min_qty)]
        je2 == [je1 EXCEPT ![b] = FMax(FSub(je1[b], cand.delta_b_i), min_qty)]
    IN  <<[i EXCEPT !.e = ie2], [j EXCEPT !.e = je2]>>

(***************************************************************************)
(* The generator.  StdRng is a library generator: a fixed function of its  *)
(* seed.  The model keeps that contract with a full-period congruential    *)
(* generator on the four low bits of the seed.                             *)
(***************************************************************************)
seed_from_u64(seed) == seed % 16

rng_next(s) == (5 * s + 3) % 16

RECURSIVE rng_skip(_, _)
\* the state after n draws
rng_skip(s, n) == IF n = 0 THEN s ELSE rng_skip(rng_next(s), n - 1)

\* gen_range(0..n) read off the state a draw leaves
index_of(s, n) == (s * n) \div 16

\* gen_range(low..high) on f64 read off the state a draw leaves
float_of(s, low, high) ==
    FAdd(low, FMul(FSub(high, low), FDiv(FInt(s), FInt(16))))

\* gen_range(alpha_low..alpha_high), a preference parameter
alpha_of(s, low, high) == QAdd(low, QMul(QSub(high, low), QNorm(s, 16)))

RECURSIVE xor_bits(_, _, _)
\* bitwise exclusive or of the n low bits
xor_bits(a, b, n) ==
    IF n = 0 THEN 0
    ELSE 2 * xor_bits(a \div 2, b \div 2, n - 1) + ((a + b) % 2)

\* cfg.seed ^ 0xA5A5_A5A5_A5A5_A5A5 on the four low bits
run_seed(seed) == xor_bits(seed % 16, 5, 4)

(***************************************************************************)
(* sim.rs                                                                  *)
(***************************************************************************)
VARIABLES
    cfg,     \* the SimConfig
    pc,      \* where the program is
    agents,  \* state.agents
    events,  \* state.events
    rng,     \* the generator of run
    t,       \* the round of run's outer loop
    enc,     \* the encounter of run's inner loop
    i,       \* the first agent drawn
    j,       \* the second agent drawn
    found,   \* what the candidate search of the last encounter returned
    first,   \* what the first execution left, once a second one is under way
    args,    \* the arguments of a function called on its own
    ret      \* what that function returned

vars == <<cfg, pc, agents, events, rng, t, enc, i, j, found, first, args, ret>>

\* the second assert alone: a roster of two goods or more, whatever the
\* declared count
config_ok_len_only(c) == Len(c.base_goods) >= 2

\* the two asserts of init_agents
config_ok(c) ==
    /\ c.base_goods_quantity = Len(c.base_goods)
    /\ Len(c.base_goods) >= 2

\* the number of non-base goods below k
alphas_before(k, base) == IF base < k THEN k - 1 ELSE k

\* agent a of init_agents: it takes draws a * (2n - 1) + 1 .. (a + 1) * (2n - 1)
\* of the generator, n for its endowments and then n - 1 for its alphas
init_agent(c, a) ==
    LET n  == Len(c.base_goods)
        s0 == rng_skip(seed_from_u64(c.seed), a * (2 * n - 1))
        e  == [k \in 0 .. n - 1 |->
                  FMul(float_of(rng_skip(s0, k + 1), <<5000, -4>>, <<2000, -3>>),
                       c.initial_endowment_scale)]
        alpha_to_base ==
            [k \in 0 .. n - 1 |->
                IF k = c.base_good THEN <<1, 2>>
                ELSE alpha_of(rng_skip(s0, n + alphas_before(k, c.base_good) + 1),
                              c.alpha_low, c.alpha_high)]
    IN  [e |-> e,
         beta |-> beta_from_alpha_to_base(alpha_to_base, c.base_good, MinAlpha),
         alpha_to_base |-> alpha_to_base]

\* the agents of init_agents(c), for a configuration that passes the asserts
init_agents(c) == [a \in 0 .. c.num_agents - 1 |-> init_agent(c, a)]

(***************************************************************************)
(* The configurations explored.                                            *)
(***************************************************************************)
MaxSeed == 1

MaxAgents == 3

MaxRounds == 2

MaxEnc == 1

MaxGoods == 3

MaxIters == 14

MaxK == 2

\* a roster of n goods
Roster(n) == [k \in 1 .. n |-> k]

\* 1e-9
MIN_QTY == <<1000, -12>>

Half == <<5000, -4>>

\* <<initial_endowment_scale, trade_step_cap_frac, oracle_bisect_iters>>:
\* a converged and a single-step oracle, uncapped and capped by half, and
\* endowments scaled down to the size of min_qty
Numerics ==
    {<<F1, F1, MaxIters>>, <<F1, Half, MaxIters>>, <<F1, F1, 1>>,
     <<MIN_QTY, F1, MaxIters>>}

\* <<pairing_mode, candidate_goods_k>>
Pairings ==
    {<<"AgainstBase", MaxK>>} \cup {<<"AllPairsPruned", k>> : k \in {0, MaxK}}

\* the configurations whose roster passes the checks
GoodConfigs ==
    UNION { { [seed |-> sd, num_agents |-> na, rounds |-> r,
               p2p_encounters_per_round |-> p, base_good |-> b,
               initial_endowment_scale |-> nu[1],
               alpha_low |-> <<1, 4>>, alpha_high |-> <<3, 4>>,
               trade_step_cap_frac |-> nu[2], min_qty |-> MIN_QTY,
               oracle_bisect_iters |-> nu[3], pairing_mode |-> m[1],
               candidate_goods_k |-> m[2],
               base_goods |-> Roster(n), base_goods_quantity |-> n] :
               sd \in {0, MaxSeed}, na \in {1, 2, MaxAgents}, r \in 0 .. MaxRounds,
               p \in 0 .. MaxEnc, b \in {0, n - 1}, nu \in Numerics,
               m \in Pairings } :
            n \in 2 .. MaxGoods }

\* configurations whose roster is too short or not of the declared length
BadConfigs ==
    { [seed |-> sd, num_agents |-> na, rounds |-> r,
       p2p_encounters_per_round |-> 1, base_good |-> 0,
       initial_endowment_scale |-> F1,
       alpha_low |-> <<1, 4>>, alpha_high |-> <<3, 4>>,
       trade_step_cap_frac |-> F1, min_qty |-> MIN_QTY,
       oracle_bisect_iters |-> MaxIters, pairing_mode |-> "AgainstBase",
       candidate_goods_k |-> MaxK,
       base_goods |-> Roster(nq[1]), base_goods_quantity |-> nq[2]] :
       sd \in {0, MaxSeed}, na \in {1, 2, MaxAgents}, r \in 1 .. MaxRounds,
       nq \in {x \in (0 .. MaxGoods) \X (0 .. MaxGoods) : x[1] < 2 \/ x[1] # x[2]} }

Configs == GoodConfigs \cup BadConfigs

Init ==
    /\ cfg \in Configs
    /\ pc \in {"main", "init"}
    /\ agents = <<>>
    /\ events = <<>>
    /\ rng = 0
    /\ t = 0
    /\ enc = 0
    /\ i = 0
    /\ j = 0
    /\ found = <<>>
    /\ first = <<>>
    /\ args = <<>>
    /\ ret = <<>>

\* main.rs: the two checks of main before it calls init_agents
Main ==
    /\ pc = "main"
    /\ pc' = IF Len(cfg.base_goods) < 2 THEN "bailed"
             ELSE IF cfg.base_goods_quantity # Len(cfg.base_goods) THEN "bailed"
             ELSE "init"
    /\ UNCHANGED <<first, args, ret, cfg, agents, events, rng, t, enc, i, j, found>>

\* init_agents: the asserts, then the population and an empty log
InitAgents ==
    /\ pc = "init"
    /\ IF config_ok(cfg)
       THEN /\ agents' = init_agents(cfg)
            /\ events' = <<>>
            /\ pc' = "run"
       ELSE /\ pc' = "panic"
            /\ UNCHANGED <<agents, events>>
    /\ UNCHANGED <<first, args, ret, cfg, rng, t, enc, i, j, found>>

\* where the loops of run stand once encounter e of round r is over
after_encounter(r, e) ==
    IF e + 1 < cfg.p2p_encounters_per_round THEN <<"draw", r, e + 1>>
    ELSE IF r + 1 < cfg.rounds THEN <<"draw", r + 1, 0>>
    ELSE <<"done", cfg.rounds, 0>>

\* a generator that is not seeded anew: it goes on from where it stands
run_rng_carried(c) == rng

\* the generator of run, seeded from the configuration
run_rng(c) == seed_from_u64(run_seed(c.seed))

\* run: the generator is seeded and the loops are entered
RunBegin ==
    /\ pc = "run"
    /\ rng' = run_rng(cfg)
    /\ IF cfg.rounds = 0 \/ cfg.p2p_encounters_per_round = 0
       THEN pc' = "done" /\ t' = cfg.rounds /\ enc' = 0
       ELSE pc' = "draw" /\ t' = 0 /\ enc' = 0
    /\ UNCHANGED <<first, args, ret, cfg, agents, events, i, j, found>>

\* run: i and j are drawn
Draw ==
    /\ pc = "draw"
    /\ LET s1 == rng_next(rng)
           s2 == rng_next(s1)
       IN  /\ i' = index_of(s1, VLen(agents))
           /\ j' = index_of(s2, VLen(agents))
           /\ rng' = s2
    /\ pc' = "check"
    /\ UNCHANGED <<first, args, ret, cfg, agents, events, t, enc, found>>

\* run: while j == i, j is drawn again
Redraw ==
    /\ pc = "check"
    /\ j = i
    /\ rng' = rng_next(rng)
    /\ j' = index_of(rng_next(rng), VLen(agents))
    /\ UNCHANGED <<first, args, ret, cfg, pc, agents, events, t, enc, i, found>>

\* f64::clamp
FClamp(x, lo, hi) == IF FLt(x, lo) THEN lo ELSE IF FGt(x, hi) THEN hi ELSE x

\* the candidate of the encounter of agents ai and aj
search(ai, aj) ==
    IF cfg.pairing_mode = "AgainstBase"
    THEN best_trade_against_base(ai, aj, cfg.base_good, cfg.min_qty,
                                 cfg.oracle_bisect_iters)
    ELSE best_trade_over_all_pairs_pruned(ai, aj, cfg.base_good,
                                          cfg.candidate_goods_k, cfg.min_qty,
                                          cfg.oracle_bisect_iters)

\* the step cap: both deltas scaled when the clamped fraction is below 1
capped(cand) ==
    LET cap == FClamp(cfg.trade_step_cap_frac, F0, F1)
    IN  IF FLt(cap, F1)
        THEN [cand EXCEPT !.delta_a_i = FMul(cand.delta_a_i, cap),
                          !.delta_b_i = FMul(cand.delta_b_i, cap)]
        ELSE cand

\* a TradeEvent whose round counts the rounds still to come
trade_event_countdown(c, ui0, uj0, ui1, uj1) ==
    [round |-> cfg.rounds - t, i |-> i, j |-> j,
     good_a |-> c.good_a, good_b |-> c.good_b, q_ab |-> c.q_ab,
     delta_a_i |-> c.delta_a_i, delta_b_i |-> c.delta_b_i,
     delta_u_i |-> FSub(ui1, ui0), delta_u_j |-> FSub(uj1, uj0)]

\* the TradeEvent of the applied candidate c
trade_event(c, ui0, uj0, ui1, uj1) ==
    [round |-> t, i |-> i, j |-> j,
     good_a |-> c.good_a, good_b |-> c.good_b, q_ab |-> c.q_ab,
     delta_a_i |-> c.delta_a_i, delta_b_i |-> c.delta_b_i,
     delta_u_i |-> FSub(ui1, ui0), delta_u_j |-> FSub(uj1, uj0)]

\* the agents and the log once candidate c has been applied, post being the
\* two agents after apply_trade
booked(c, post) ==
    <<[agents EXCEPT ![i] = post[1], ![j] = post[2]],
      Append(events,
             trade_event(c,
                 cd_utility(agents[i].beta, agents[i].e, cfg.min_qty),
                 cd_utility(agents[j].beta, agents[j].e, cfg.min_qty),
                 cd_utility(post[1].beta, post[1].e, cfg.min_qty),
                 cd_utility(post[2].beta, post[2].e, cfg.min_qty)))>>

\* the body of if let Some: the candidate is capped, applied and logged
traded(c) == booked(c, apply_trade(agents[i], agents[j], c, cfg.min_qty))

\* an encounter that logs its pair also when the search found nothing
encounter_effect_logged(cand) ==
    IF cand # <<>> THEN traded(capped(cand[1]))
    ELSE <<agents, Append(events, [round |-> t, i |-> i, j |-> j])>>

\* the agents and the log after the encounter whose search gave cand
encounter_effect(cand) ==
    IF cand # <<>> THEN traded(capped(cand[1])) ELSE <<agents, events>>

\* run: one encounter of the distinct agents i and j
Encounter ==
    /\ pc = "check"
    /\ j # i
    /\ \E cand \in {search(agents[i], agents[j])} :
          /\ found' = cand
          /\ \E after \in {encounter_effect(cand)} :
                agents' = after[1] /\ events' = after[2]
    /\ \E nxt \in {after_encounter(t, enc)} :
          pc' = nxt[1] /\ t' = nxt[2] /\ enc' = nxt[3]
    /\ UNCHANGED <<first, args, ret, cfg, rng, i, j>>

\* a second execution of init_agents and run on the same configuration,
\* what the first one left being kept for comparison
Restart ==
    /\ pc = "done"
    /\ first = <<>>
    /\ first' = <<[agents |-> agents, events |-> events]>>
    /\ pc' = "init"
    /\ UNCHANGED <<args, ret, cfg, agents, events, rng, t, enc, i, j, found>>

Next == Main \/ InitAgents \/ RunBegin \/ Draw \/ Redraw \/ Encounter \/ Restart

Spec == Init /\ [][Next]_vars

(***************************************************************************)
(* Conservation of goods.                                                  *)
(***************************************************************************)
RECURSIVE holdings_sum(_, _, _)
\* the holdings of good g summed over the first n agents, in their order
holdings_sum(ags, g, n) ==
    IF n = 0 THEN F0 ELSE FAdd(holdings_sum(ags, g, n - 1), ags[n - 1].e[g])

\* init_agents has returned
started == pc \in {"run", "draw", "check", "done"}

\* x is within one part in a hundred of y
near(x, y) == FLt(FAbs(FSub(x, y)), FMul(<<1000, -5>>, FAbs(y)))

\* every good's total over the agents now is near its total over the agents before
same_totals(now, before) ==
    \A g \in 0 .. Len(cfg.base_goods) - 1 :
        near(holdings_sum(now, g, VLen(now)), holdings_sum(before, g, VLen(before)))

\* C1: in every state from init_agents on, the total of each good over all
\* the agents is the total init_agents left, to within rounding, whatever the
\* pairing mode, oracle_bisect_iters and trade_step_cap_frac.
C1_Conservation == started => same_totals(agents, init_agents(cfg))

(***************************************************************************)
(* The functions called on their own, on arguments drawn from small sets.  *)
(***************************************************************************)
\* alphas of the closed interval [0, 1]; 7/10 and 1/5 are those of
\* tests/dyad_exchange.rs
OracleAlphas == {<<0, 1>>, <<1, 5>>, <<1, 2>>, <<7, 10>>, <<1, 1>>}

\* quantities no smaller than min_qty
OracleQtys == {<<1000, -3>>, <<1500, -3>>, <<3000, -3>>}

OracleCalls ==
    { [op |-> "solve_two_good_exchange", alpha_i |-> x, ai |-> a, bi |-> b,
       alpha_j |-> y, aj |-> c, bj |-> d, min_qty |-> MIN_QTY, iters |-> n] :
      x \in OracleAlphas, y \in OracleAlphas, a \in {<<2000, -3>>} \cup OracleQtys,
      b \in OracleQtys, c \in OracleQtys, d \in OracleQtys, n \in {1, MaxIters} }

\* the parts of a configuration that init_agent reads, for n goods
Population(sd, n) ==
    [seed |-> sd, base_good |-> 0, initial_endowment_scale |-> F1,
     alpha_low |-> <<1, 4>>, alpha_high |-> <<3, 4>>, base_goods |-> Roster(n)]

\* two agents of one population, any numeraire and any k up to MaxK + 1
PrunedCalls ==
    UNION { { [op |-> "candidate_goods_pruned",
               i |-> init_agent(Population(sd, n), x),
               j |-> init_agent(Population(sd, n), y),
               base |-> b, k |-> k, min_qty |-> MIN_QTY] :
               sd \in {0, MaxSeed}, x \in 0 .. MaxAgents - 1,
               y \in 0 .. MaxAgents - 1, b \in 0 .. n - 1, k \in 0 .. MaxK + 1 } :
            n \in 2 .. MaxGoods }

MaxWeight == 6

RECURSIVE weight_sum(_, _)
weight_sum(w, n) == IF n = 0 THEN 0 ELSE weight_sum(w, n - 1) + w[n - 1]

\* the normalized non-negative vectors of n weights in steps of 1 / MaxWeight
Betas(n) ==
    { [k \in 0 .. n - 1 |-> QNorm(w[k], MaxWeight)] :
      w \in { v \in [0 .. n - 1 -> 0 .. MaxWeight] : weight_sum(v, n) = MaxWeight } }

\* beta and a numeraire whose round trip the integers at hand can hold: a
\* zero weight at the numeraire and another zero weight together put the
\* ratios 999999 and 1 / 999999 in one sum
exact(beta, base) ==
    beta[base][1] > 0 \/ \A k \in DOMAIN beta : k # base => beta[k][1] > 0

RoundTripCalls ==
    UNION { { [op |-> "beta_alpha_base_roundtrip", beta |-> c[1], base |-> c[2]] :
              c \in { x \in Betas(n) \X (0 .. n - 1) : exact(x[1], x[2]) } } :
            n \in 2 .. MaxGoods }

\* the f64 values an entry of alpha_to_base is drawn from: below, at, inside
\* and above the bounds of the clamp, and what is not a number
AlphaEntries ==
    {QNaN, <<-1, 2>>, <<0, 1>>, <<1, 4>>, <<1, 2>>, <<3, 4>>, <<1, 1>>, <<3, 2>>}

\* a vector whose ratios the integers at hand can add: an entry clamped at
\* the lower bound and one clamped at the upper bound, both off the numeraire,
\* put the ratios 1 / 999999 and 999999 in one sum
addable(v, base) ==
    ~ \E k, l \in DOMAIN v \ {base} :
          /\ ~IsNaN(v[k]) /\ v[k][1] <= 0
          /\ ~IsNaN(v[l]) /\ v[l][1] >= v[l][2]

AggregateCalls ==
    UNION { { [op |-> "beta_from_alpha_to_base", alpha_to_base |-> c[1], base |-> c[2]] :
              c \in { x \in [0 .. n - 1 -> AlphaEntries] \X (0 .. n - 1) :
                         addable(x[1], x[2]) } } :
            n \in 1 .. MaxGoods }

\* two agents of populations of any two numbers of goods, any numeraire of
\* the first agent's goods, one bisection step or MaxIters
AgainstBaseCalls ==
    UNION { { [op |-> "best_trade_against_base",
               i |-> init_agent(Population(sd, n[1]), x),
               j |-> init_agent(Population(sd, n[2]), y),
               base |-> b, min_qty |-> MIN_QTY, iters |-> it] :
               sd \in {0, MaxSeed}, x \in 0 .. MaxAgents - 1,
               y \in 0 .. MaxAgents - 1, b \in 0 .. n[1] - 1,
               it \in {1, MaxIters} } :
            n \in (2 .. MaxGoods) \X (2 .. MaxGoods) }

Calls ==
    OracleCalls \cup PrunedCalls \cup RoundTripCalls \cup AggregateCalls
        \cup AgainstBaseCalls

CallInit ==
    /\ pc = "call"
    /\ args \in Calls
    /\ ret = <<>>
    /\ cfg = <<>>
    /\ agents = <<>>
    /\ events = <<>>
    /\ rng = 0
    /\ t = 0
    /\ enc = 0
    /\ i = 0
    /\ j = 0
    /\ found = <<>>
    /\ first = <<>>

\* the oracle called as tests/dyad_exchange.rs calls it
CallOracle ==
    /\ pc = "call"
    /\ args.op = "solve_two_good_exchange"
    /\ ret' = solve_two_good_exchange(args.alpha_i, args.ai, args.bi,
                                      args.alpha_j, args.aj, args.bj,
                                      args.min_qty, args.iters)
    /\ pc' = "returned"
    /\ UNCHANGED <<args, cfg, agents, events, rng, t, enc, i, j, found, first>>

\* candidate_goods_pruned called on a dyad
CallPruned ==
    /\ pc = "call"
    /\ args.op = "candidate_goods_pruned"
    /\ ret' = candidate_goods_pruned(args.i, args.j, args.base, args.k,
                                     args.min_qty)
    /\ pc' = "returned"
    /\ UNCHANGED <<args, cfg, agents, events, rng, t, enc, i, j, found, first>>

\* tests/beta_recovery.rs: the alpha of good k against the numeraire, where
\* beta_b = beta[base].max(1e-12).  Every positive weight of the model
\* exceeds 1e-6, so with beta[base] = 0 the quotient beta[k] / (beta[k] + 1e-12)
\* is 0 for beta[k] = 0 and lies above 1 - 1e-6 otherwise.
alpha_of_beta(beta, base, k) ==
    QClamp(IF beta[base][1] > 0 THEN QDiv(beta[k], QAdd(beta[k], beta[base]))
           ELSE IF beta[k][1] = 0 THEN <<0, 1>> ELSE <<1, 1>>,
           MinAlpha, OneMinus(MinAlpha))

\* tests/beta_recovery.rs: alpha_to_base built from beta
alpha_to_base_of(beta, base) ==
    [k \in DOMAIN beta |-> IF k = base THEN <<1, 2>> ELSE alpha_of_beta(beta, base, k)]

\* the round trip of tests/beta_recovery.rs
CallRoundTrip ==
    /\ pc = "call"
    /\ args.op = "beta_alpha_base_roundtrip"
    /\ ret' = beta_from_alpha_to_base(alpha_to_base_of(args.beta, args.base),
                                      args.base, MinAlpha)
    /\ pc' = "returned"
    /\ UNCHANGED <<args, cfg, agents, events, rng, t, enc, i, j, found, first>>

\* beta_from_alpha_to_base called on a vector, with the min_alpha of sim.rs
CallAggregate ==
    /\ pc = "call"
    /\ args.op = "beta_from_alpha_to_base"
    /\ ret' = beta_from_alpha_to_base(args.alpha_to_base, args.base, MinAlpha)
    /\ pc' = "returned"
    /\ UNCHANGED <<args, cfg, agents, events, rng, t, enc, i, j, found, first>>

\* best_trade_against_base called on a dyad
CallAgainstBase ==
    /\ pc = "call"
    /\ args.op = "best_trade_against_base"
    /\ ret' = best_trade_against_base(args.i, args.j, args.base, args.min_qty,
                                      args.iters)
    /\ pc' = "returned"
    /\ UNCHANGED <<args, cfg, agents, events, rng, t, enc, i, j, found, first>>

CallNext ==
    CallOracle \/ CallPruned \/ CallRoundTrip \/ CallAggregate \/ CallAgainstBase

CallSpec == CallInit /\ [][CallNext]_vars

\* the oracle has returned
oracle_returned == pc = "returned" /\ args.op = "solve_two_good_exchange"

\* C2: for quantities no smaller than min_qty, alphas in [0, 1] and at least
\* one bisection step, the oracle's allocation hands out what the two agents
\* held: ai_post + aj_post is ai + aj and bi_post + bj_post is bi + bj, to
\* within rounding.
C2_OracleConserves ==
    oracle_returned =>
        /\ near(FAdd(ret.ai_post, ret.aj_post), FAdd(args.ai, args.aj))
        /\ near(FAdd(ret.bi_post, ret.bj_post), FAdd(args.bi, args.bj))

(***************************************************************************)
(* The log and the candidates.                                             *)
(***************************************************************************)
\* a utility change that is no loss: above -0.01, the margin that rounding
\* to four digits leaves on utilities of order one
no_loss(d) == FGt(d, <<-1000, -5>>)

\* C3: every TradeEvent in the log has a realized delta_u_i above zero and a
\* realized delta_u_j above zero; stated here up to rounding, as neither
\* party of a logged trade having lost utility.
C3_EventsImprove ==
    \A n \in 1 .. Len(events) :
        no_loss(events[n].delta_u_i) /\ no_loss(events[n].delta_u_j)

\* C4: a candidate that the search of an encounter returned (from
\* best_trade_against_base or best_trade_over_all_pairs_pruned, each through
\* evaluate_pairwise_trade) has delta_u_i > 0 and delta_u_j > 0, the utility
\* changes of the hypothetical bundles with the oracle's post quantities.
C4_CandidatesImprove ==
    found # <<>> => FGt(found[1].delta_u_i, F0) /\ FGt(found[1].delta_u_j, F0)

\* a search has returned a candidate and the trade is in the log
C4_Witness == found # <<>> /\ Len(events) > 0

(***************************************************************************)
(* Termination.  The program is sequential: a step that can be taken is    *)
(* taken.  InitAgents can be taken exactly when pc = "init" and Encounter  *)
(* exactly when pc = "check" and j # i, and each leaves that condition, so *)
(* weak fairness of the two is that the program is not left there forever. *)
(***************************************************************************)
FairSpec ==
    /\ Spec
    /\ WF_vars(Main) /\ WF_vars(RunBegin) /\ WF_vars(Draw) /\ WF_vars(Redraw)
    /\ WF_vars(Restart)
    /\ []<>~(pc = "init")
    /\ []<>~(pc = "check" /\ j # i)

\* C5: for every configuration with num_agents >= 1, rounds >= 0 and
\* p2p_encounters_per_round >= 0, a run that has been entered reaches the end
\* of its loops: every encounter's re-draw loop ends and run returns.
C5_RunTerminates == (pc = "run" /\ cfg.num_agents >= 1) ~> (pc = "done")

(***************************************************************************)
(* Determinism.                                                            *)
(***************************************************************************)
\* the second execution is over
both_done == pc = "done" /\ first # <<>>

\* C6: two executions of init_agents and run on the same configuration leave
\* the same sequence of events and the same agents.
C6_Deterministic ==
    both_done => events = first[1].events /\ agents = first[1].agents

\* the second execution is over and it has logged a trade
C6_Witness == both_done /\ Len(events) > 0

(***************************************************************************)
(* Configuration errors and the floor on holdings.                         *)
(***************************************************************************)
\* the roster is too short or not of the declared length
bad_roster ==
    Len(cfg.base_goods) < 2 \/ Len(cfg.base_goods) # cfg.base_goods_quantity

\* C7: with a roster of fewer than two goods, or one whose length is not
\* base_goods_quantity, the program stops before any simulation: no agent is
\* created, no encounter is made and no TradeEvent is logged.
C7_BadRosterAborts ==
    bad_roster =>
        /\ pc \in {"main", "init", "bailed", "panic"}
        /\ agents = <<>>
        /\ events = <<>>

\* init_agents has panicked on a roster that main was not there to refuse
C7_Witness == bad_roster /\ pc = "panic"

\* C8: from the state init_agents leaves through every encounter of run,
\* every entry of every agent's holdings is at least min_qty.
C8_HoldingsFloored ==
    started =>
        \A a \in DOMAIN agents : \A g \in DOMAIN agents[a].e :
            ~FLt(agents[a].e[g], cfg.min_qty)

(***************************************************************************)
(* The pruned goods and the round trip of the preferences.                 *)
(***************************************************************************)
pruned_returned == pc = "returned" /\ args.op = "candidate_goods_pruned"

\* C9: for two agents of the same number of goods, a numeraire below that
\* number and any k >= 0, candidate_goods_pruned returns min(k, goods - 1)
\* goods, no good twice and never the numeraire.
C9_PrunedGoods ==
    pruned_returned =>
        /\ Len(ret) = Min(args.k, VLen(args.i.e) - 1)
        /\ \A x \in 1 .. Len(ret) : \A y \in 1 .. Len(ret) :
               ret[x] = ret[y] => x = y
        /\ \A x \in 1 .. Len(ret) : ret[x] # args.base

\* a call that asked for more goods than there are, and got two
C9_Witness == pruned_returned /\ Len(ret) >= 2 /\ args.k > Len(ret)

roundtrip_returned == pc = "returned" /\ args.op = "beta_alpha_base_roundtrip"

RECURSIVE abs_err_sum(_, _, _)
\* tests/beta_recovery.rs: the sum of |x - y| over the first n entries
abs_err_sum(beta, beta2, n) ==
    IF n = 0 THEN <<0, 1>>
    ELSE QAdd(abs_err_sum(beta, beta2, n - 1),
              QAbs(QSub(beta[n - 1], beta2[n - 1])))

\* err < 1e-6
within_tolerance(err) == QLt(err, <<1, 1000000>>)

\* C10, as the spec has it: for any normalized non-negative beta and any
\* numeraire, the alphas beta[k] / (beta[k] + beta[base]) clamped to
\* [1e-6, 1 - 1e-6] give back, through beta_from_alpha_to_base, a vector
\* within 1e-6 of beta in total absolute error.
C10_RoundTrip ==
    roundtrip_returned =>
        within_tolerance(abs_err_sum(args.beta, ret, VLen(args.beta)))

\* no alpha of the round trip is moved by the clamp
unclamped(beta, base) ==
    \A k \in DOMAIN beta :
        k # base =>
            /\ beta[base][1] > 0
            /\ alpha_of_beta(beta, base, k) = QDiv(beta[k], QAdd(beta[k], beta[base]))

\* C10, amended: the round trip gives beta back within 1e-6 when no alpha
\* was moved by the clamp, that is when every beta[k] / (beta[k] + beta[base])
\* lies in [1e-6, 1 - 1e-6].
C10_RoundTripUnclamped ==
    (roundtrip_returned /\ unclamped(args.beta, args.base)) =>
        within_tolerance(abs_err_sum(args.beta, ret, VLen(args.beta)))

\* a round trip of three goods without a clamped alpha
C10_Witness ==
    roundtrip_returned /\ unclamped(args.beta, args.base) /\ VLen(args.beta) >= 3
(***************************************************************************)
(* C11: the aggregated vector is normalized.                               *)
(***************************************************************************)
aggregate_returned == pc = "returned" /\ args.op = "beta_from_alpha_to_base"

\* x >= 0.0
is_nonneg(x) == ~IsNaN(x) /\ x[1] >= 0

\* (sum - 1.0).abs() < 1e-9
sums_to_one(v) ==
    QLt(QAbs(QSub(QVSumTo(v, VLen(v)), <<1, 1>>)), <<1, 1000000000>>)

\* C11: for every vector alpha_to_base and every base below its length, the
\* vector returned by beta_from_alpha_to_base sums to 1 within 1e-9 and has
\* no negative entry.
C11_Normalized ==
    aggregate_returned =>
        /\ sums_to_one(ret)
        /\ \A k \in DOMAIN ret : is_nonneg(ret[k])

(***************************************************************************)
(* C12: what an encounter leaves alone.                                    *)
(***************************************************************************)
\* the step is an encounter of run
encounter_step == pc = "check" /\ j # i

\* holdings entry g of agent a is one the candidate of the step may change
traded_entry(a, g) ==
    /\ a \in {i, j}
    /\ found' # <<>>
    /\ g \in {found'[1].good_a, found'[1].good_b}

\* C12: an encounter changes at most the holdings of the two traded goods of
\* the two drawn agents; every other holdings entry of every agent, and the
\* beta and alpha_to_base of every agent, are as they were.
C12_EncounterFrame ==
    [][encounter_step =>
          /\ DOMAIN agents' = DOMAIN agents
          /\ \A a \in DOMAIN agents :
                /\ agents'[a].beta = agents[a].beta
                /\ agents'[a].alpha_to_base = agents[a].alpha_to_base
                /\ DOMAIN agents'[a].e = DOMAIN agents[a].e
                /\ \A g \in DOMAIN agents[a].e :
                      agents'[a].e[g] # agents[a].e[g] => traded_entry(a, g)]_vars

\* a trade has been applied among three agents holding three goods
C12_Witness ==
    /\ started
    /\ found # <<>>
    /\ Len(events) > 0
    /\ VLen(agents) >= 3
    /\ Len(cfg.base_goods) >= 3

(***************************************************************************)
(* C13: an encounter without a candidate.                                  *)
(***************************************************************************)
\* C13: an encounter whose search returns no candidate leaves the agents and
\* the event log as they were and goes on to the next encounter (or out of
\* the loops after the last one); an encounter appends an event, and only
\* one, only when a candidate was found.
C13_NoCandidateNoOp ==
    [][encounter_step =>
          /\ found' = <<>> =>
                /\ agents' = agents
                /\ events' = events
                /\ pc' \in {"draw", "done"}
                /\ pc' = "draw" => <<t', enc'>> # <<t, enc>>
          /\ events' # events =>
                /\ found' # <<>>
                /\ Len(events') = Len(events) + 1]_vars

\* an encounter has found nothing, after one of the run that found a trade
C13_Witness == started /\ found = <<>> /\ Len(events) > 0 /\ pc = "done"

(***************************************************************************)
(* C14: the best candidate against the numeraire.                          *)
(***************************************************************************)
against_base_returned == pc = "returned" /\ args.op = "best_trade_against_base"

\* the candidate of good k against the numeraire of the call
candidate_of(k) ==
    evaluate_pairwise_trade(args.i, args.j, k, args.base, args.base,
                            args.min_qty, args.iters)

\* the goods off the numeraire that yield a strictly improving candidate
improving_goods ==
    {k \in DOMAIN args.i.e : k # args.base /\ candidate_of(k) # <<>>}

\* C14: best_trade_against_base returns None exactly when no good off the
\* numeraire yields a strictly improving candidate; otherwise it returns one
\* of those candidates, strictly improving for both agents, whose score
\* min(delta_u_i, delta_u_j) is not below the score of any of them.
C14_BestAgainstBase ==
    against_base_returned =>
        /\ ret = <<>> <=> improving_goods = {}
        /\ ret # <<>> =>
              /\ FGt(ret[1].delta_u_i, F0)
              /\ FGt(ret[1].delta_u_j, F0)
              /\ ret[1].good_b = args.base
              /\ ret[1].good_a \in improving_goods
              /\ ret = candidate_of(ret[1].good_a)
              /\ \A k \in improving_goods :
                    ~FLt(score(ret[1]), score(candidate_of(k)[1]))

\* the returned candidate beat an earlier good's candidate of a lower score
C14_Witness ==
    /\ against_base_returned
    /\ ret # <<>>
    /\ \E k \in improving_goods :
          /\ k < ret[1].good_a
          /\ FLt(score(candidate_of(k)[1]), score(ret[1]))

(***************************************************************************)
(* C15: the event log during run.                                          *)
(***************************************************************************)
\* the step is one of run: from its entry to the exit of its loops
run_step == pc \in {"run", "draw", "check"}

is_prefix(old, new) ==
    /\ Len(old) <= Len(new)
    /\ \A k \in 1 .. Len(old) : new[k] = old[k]

\* the rounds along the log never decrease and lie in [0, rounds)
rounds_ordered ==
    /\ \A k \in 1 .. Len(events) :
          events[k].round >= 0 /\ events[k].round < cfg.rounds
    /\ \A k \in 1 .. Len(events) - 1 : events[k].round <= events[k + 1].round

\* C15: during run the event log only grows at its end, so that the log at
\* an earlier point is a prefix of the log at any later point, and the
\* round fields along the log are non-decreasing, each in [0, rounds).
C15_LogAppendOnly ==
    /\ [][run_step => is_prefix(events, events')]_vars
    /\ [](started => rounds_ordered)

\* a log of two events, the second of a later round
C15_Witness ==
    /\ started
    /\ Len(events) >= 2
    /\ events[1].round < events[2].round

====
